---- MODULE Spec2Model ----
(***************************************************************************)
(* A model of the edge worker of trusted-collab-worker.js: one invocation  *)
(* of fetch(request, env, ctx), stage by stage (classify, guard, forward,  *)
(* normalize, inject, sign, return).  Strings are TLA+ strings; the        *)
(* string operations of the code (toLowerCase, startsWith, slice, split,   *)
(* trim, the regular expressions, parseInt) are computed character by      *)
(* character.                                                              *)
(***************************************************************************)
EXTENDS Integers, Sequences, FiniteSets, TLC

VARIABLES
    env,            \* the configuration object passed to fetch
    request,        \* the incoming request: url parts and headers
    origin,         \* what the origin will do when it is fetched
    now,            \* what new Date().toISOString() returns at signing time
    pc,             \* the position of the handler
    isLLMEndpoint, isSitemap, isManifest,
    resp,           \* the origin's response, once received
    headers,        \* the mutable copy of the origin's headers
    originCalls,    \* how many times fetch(request) was called
    bodyUsed,       \* whether the worker has read resp.body itself
    bodyReads,      \* how many times the worker read a copy of the body
    result          \* what the handler gave back: a response or an exception

vars == <<env, request, origin, now, pc, isLLMEndpoint, isSitemap, isManifest,
          resp, headers, originCalls, bodyUsed, bodyReads, result>>

----------------------------------------------------------------------------
(* Bounds of the model. *)

\* The most spaces put between "Bearer " and the credential.
MaxPad == 1

\* The most Link header lines the origin sends.
MaxOriginLinks == 2

----------------------------------------------------------------------------
(* Strings. *)

Char(s, i) == SubSeq(s, i, i)

Upper == "ABCDEFGHIJKLMNOPQRSTUVWXYZ"
Lower == "abcdefghijklmnopqrstuvwxyz"

LowerChar(c) ==
    IF \E k \in 1..Len(Upper) : Char(Upper, k) = c
    THEN Char(Lower, CHOOSE k \in 1..Len(Upper) : Char(Upper, k) = c)
    ELSE c

RECURSIVE toLowerCase(_)
toLowerCase(s) ==
    IF Len(s) <= 1 THEN LowerChar(s)
    ELSE toLowerCase(SubSeq(s, 1, Len(s) \div 2))
            \o toLowerCase(SubSeq(s, Len(s) \div 2 + 1, Len(s)))

startsWith(s, p) == Len(s) >= Len(p) /\ SubSeq(s, 1, Len(p)) = p

endsWith(s, p) == Len(s) >= Len(p) /\ SubSeq(s, Len(s) - Len(p) + 1, Len(s)) = p

\* s.slice(k): the string from index k (0-based) on.
slice(s, k) == SubSeq(s, k + 1, Len(s))

\* The white space of String.prototype.trim and of \s, as far as it occurs here.
WhiteSpace == {" ", "\t", "\n", "\r", "\f"}

RECURSIVE trimStart(_)
trimStart(s) ==
    IF s # "" /\ Char(s, 1) \in WhiteSpace THEN trimStart(SubSeq(s, 2, Len(s))) ELSE s

RECURSIVE trimEnd(_)
trimEnd(s) ==
    IF s # "" /\ Char(s, Len(s)) \in WhiteSpace
    THEN trimEnd(SubSeq(s, 1, Len(s) - 1)) ELSE s

trim(s) == trimEnd(trimStart(s))

\* The first index of character c in s, 0 when there is none.
IndexOf(s, c) ==
    IF \E i \in 1..Len(s) : Char(s, i) = c
    THEN CHOOSE i \in 1..Len(s) :
            Char(s, i) = c /\ \A j \in 1..(i - 1) : Char(s, j) # c
    ELSE 0

\* s.split(sep) for a one-character separator.
RECURSIVE split(_, _)
split(s, sep) ==
    LET i == IndexOf(s, sep)
    IN  IF i = 0 THEN <<s>>
        ELSE <<SubSeq(s, 1, i - 1)>> \o split(SubSeq(s, i + 1, Len(s)), sep)

\* s.replace(/c1|c2|.../g, ''): s without the characters of cs.
RECURSIVE removeChars(_, _)
removeChars(s, cs) ==
    IF Len(s) <= 1 THEN (IF s \in cs THEN "" ELSE s)
    ELSE removeChars(SubSeq(s, 1, Len(s) \div 2), cs)
            \o removeChars(SubSeq(s, Len(s) \div 2 + 1, Len(s)), cs)

\* Whether s, read from index i, continues with p, letter case ignored.
MatchCI(s, i, p) ==
    /\ i >= 1
    /\ i + Len(p) - 1 <= Len(s)
    /\ toLowerCase(SubSeq(s, i, i + Len(p) - 1)) = toLowerCase(p)

RECURSIVE join(_, _)
join(ss, sep) ==
    IF ss = <<>> THEN ""
    ELSE IF Len(ss) = 1 THEN ss[1]
    ELSE ss[1] \o sep \o join(Tail(ss), sep)

Digits == "0123456789"

IsDigit(c) == \E k \in 1..Len(Digits) : Char(Digits, k) = c

DigitVal(c) == (CHOOSE k \in 1..Len(Digits) : Char(Digits, k) = c) - 1

\* The number of leading digits of s.
RECURSIVE digitRun(_)
digitRun(s) ==
    IF s # "" /\ IsDigit(Char(s, 1)) THEN 1 + digitRun(SubSeq(s, 2, Len(s))) ELSE 0

RECURSIVE digitsValue(_)
digitsValue(s) ==
    IF s = "" THEN 0
    ELSE 10 * digitsValue(SubSeq(s, 1, Len(s) - 1)) + DigitVal(Char(s, Len(s)))

\* parseInt(s, 10) || 0: leading white space, an optional sign, then the longest
\* run of digits; NaN (no digit) becomes 0.
parseIntOr0(s) ==
    LET t    == trimStart(s)
        neg  == t # "" /\ Char(t, 1) = "-"
        sgn  == t # "" /\ Char(t, 1) \in {"-", "+"}
        u    == IF sgn THEN SubSeq(t, 2, Len(t)) ELSE t
        n    == digitRun(u)
        v    == digitsValue(SubSeq(u, 1, n))
    IN  IF n = 0 THEN 0 ELSE IF neg THEN 0 - v ELSE v

----------------------------------------------------------------------------
(* The Headers class: a list of (lower-cased name, value) pairs.  A value  *)
(* is stored without its leading and trailing HTTP white space.            *)

HeaderEntry(name, value) == [n |-> toLowerCase(name), v |-> trim(value)]

\* new Headers(init) from a list of <<name, value>> pairs.
RECURSIVE HeadersOf(_)
HeadersOf(pairs) ==
    IF pairs = <<>> THEN <<>>
    ELSE <<HeaderEntry(pairs[1][1], pairs[1][2])>> \o HeadersOf(Tail(pairs))

HeaderValues(h, name) ==
    LET sel == SelectSeq(h, LAMBDA e : e.n = toLowerCase(name))
    IN  [i \in 1..Len(sel) |-> sel[i].v]

HeadersHas(h, name) == \E i \in 1..Len(h) : h[i].n = toLowerCase(name)

\* headers.get(name) || '': the values of the name joined by ", "; the code never
\* tells an absent header (null) from an empty one.
HeadersGet(h, name) == join(HeaderValues(h, name), ", ")

HeadersDelete(h, name) == SelectSeq(h, LAMBDA e : e.n # toLowerCase(name))

HeadersAppend(h, name, value) == Append(h, HeaderEntry(name, value))

\* headers.set: the first header of the name takes the value, the others go.
HeadersSet(h, name, value) ==
    IF HeadersHas(h, name)
    THEN LET first == CHOOSE i \in 1..Len(h) :
                        /\ h[i].n = toLowerCase(name)
                        /\ \A j \in 1..(i - 1) : h[j].n # toLowerCase(name)
         IN  SubSeq(h, 1, first - 1) \o <<HeaderEntry(name, value)>>
                \o HeadersDelete(SubSeq(h, first + 1, Len(h)), name)
    ELSE HeadersAppend(h, name, value)

----------------------------------------------------------------------------
(* The stages of fetch(request, env, ctx) as functions of their inputs. *)

\* The pattern without its end anchor: /llm anywhere in the path.
IsLLMPathUnanchored(pathname) ==
    \E i \in 1..(Len(pathname) - 3) : SubSeq(pathname, i, i + 3) = "/llm"

\* /\/llm\/?$/.test(pathname)
IsLLMPath(pathname) == endsWith(pathname, "/llm") \/ endsWith(pathname, "/llm/")

\* pathname === (env.SITEMAP_PATH || '/llm-sitemap.json')
IsSitemapPath(pathname, e) ==
    pathname = (IF e.SITEMAP_PATH # "" THEN e.SITEMAP_PATH ELSE "/llm-sitemap.json")

\* pathname === (env.MANIFEST_PATH || '/llms.txt')
IsManifestPath(pathname, e) ==
    pathname = (IF e.MANIFEST_PATH # "" THEN e.MANIFEST_PATH ELSE "/llms.txt")

\* (env.API_KEYS || '').split(',').map(s => s.trim()).filter(Boolean)
ApiKeys(e) ==
    LET parts   == split(e.API_KEYS, ",")
        trimmed == [i \in 1..Len(parts) |-> trim(parts[i])]
    IN  SelectSeq(trimmed, LAMBDA k : k # "")

includes(keys, x) == \E i \in 1..Len(keys) : keys[i] = x

\* The bearer credential with the white space around it removed.
BearerTrimmed(auth) ==
    IF startsWith(toLowerCase(auth), "bearer ") THEN trim(slice(auth, 7)) ELSE ""

\* auth.toLowerCase().startsWith('bearer ') ? auth.slice(7) : ''
Bearer(auth) == IF startsWith(toLowerCase(auth), "bearer ") THEN slice(auth, 7) ELSE ""

\* The comparison with the keys made without regard to letter case.
GuardOkIgnoringCase(req, e) ==
    LET auth   == HeadersGet(req.headers, "authorization")
        xKey   == HeadersGet(req.headers, "x-api-key")
        keys   == ApiKeys(e)
        lower  == [i \in 1..Len(keys) |-> toLowerCase(keys[i])]
        bearer == IF startsWith(toLowerCase(auth), "bearer ") THEN slice(auth, 7) ELSE ""
    IN  \/ bearer # "" /\ includes(lower, toLowerCase(bearer))
        \/ xKey # "" /\ includes(lower, toLowerCase(xKey))

\* The guard that lets every request pass when no key is configured.
GuardOkOpenWithoutKeys(req, e) ==
    LET auth   == HeadersGet(req.headers, "authorization")
        xKey   == HeadersGet(req.headers, "x-api-key")
        keys   == ApiKeys(e)
        bearer == Bearer(auth)
    IN  \/ keys = <<>>
        \/ bearer # "" /\ includes(keys, bearer)
        \/ xKey # "" /\ includes(keys, xKey)

\* const ok = (bearer && keys.includes(bearer)) || (xKey && keys.includes(xKey))
GuardOk(req, e) ==
    LET auth   == HeadersGet(req.headers, "authorization")
        xKey   == HeadersGet(req.headers, "x-api-key")
        keys   == ApiKeys(e)
        bearer == Bearer(auth)
    IN  \/ bearer # "" /\ includes(keys, bearer)
        \/ xKey # "" /\ includes(keys, xKey)

\* isLLMEndpoint && (env.AUTH_MODE === 'api_key')
GuardApplies(llm, e) == llm /\ e.AUTH_MODE = "api_key"

Unauthorized ==
    [kind |-> "response", status |-> 401, statusText |-> "", body |-> "",
     headers |-> HeadersOf(<< <<"WWW-Authenticate", "Bearer realm=\"tct\"">> >>)]

CacheControlValue ==
    "max-age=0, must-revalidate, stale-while-revalidate=60, stale-if-error=86400, public"

\* The normalizer without the removal of Expires.
NormalizedKeepingExpires(h) ==
    LET h1 == HeadersSet(h, "Cache-Control", CacheControlValue)
        h2 == HeadersDelete(h1, "Pragma")
    IN  HeadersDelete(h2, "X-LiteSpeed-Cache-Control")

\* The header normalizer.
Normalized(h) ==
    LET h1 == HeadersSet(h, "Cache-Control", CacheControlValue)
        h2 == HeadersDelete(h1, "Pragma")
        h3 == HeadersDelete(h2, "Expires")
    IN  HeadersDelete(h3, "X-LiteSpeed-Cache-Control")

\* /;\s*rel=\"?(n1|n2|...)/i.test(link): a ";", any white space, "rel=", an
\* optional double quote, then one of the names, letter case ignored.  A closing
\* quote the pattern makes optional decides nothing.
TestRel(link, names) ==
    \E i \in 1..Len(link) :
        /\ Char(link, i) = ";"
        /\ \E j \in (i + 1)..Len(link) :
            /\ \A k \in (i + 1)..(j - 1) : Char(link, k) \in WhiteSpace
            /\ MatchCI(link, j, "rel=")
            /\ \E nm \in names :
                \/ MatchCI(link, j + 4, nm)
                \/ Char(link, j + 4) = "\"" /\ MatchCI(link, j + 5, nm)

\* The canonical test made with regard to letter case (the pattern without i).
HasCanonicalCaseSensitive(link) ==
    \E i \in 1..Len(link) :
        /\ Char(link, i) = ";"
        /\ \E j \in (i + 1)..Len(link) :
            /\ \A k \in (i + 1)..(j - 1) : Char(link, k) \in WhiteSpace
            /\ \E lit \in {"rel=canonical", "rel=\"canonical"} :
                /\ j + Len(lit) - 1 <= Len(link)
                /\ SubSeq(link, j, j + Len(lit) - 1) = lit

HasCanonical(link) == TestRel(link, {"canonical"})
HasTerms(link) == TestRel(link, {"terms"})
HasPricing(link) == TestRel(link, {"pricing", "payment"})

\* pathname.replace(/\/?llm\/?$/, '/'): the leftmost match that reaches the end.
CanonicalPath(pathname) ==
    LET tails  == {"/llm/", "/llm", "llm/", "llm"}
        starts == {i \in 1..Len(pathname) : SubSeq(pathname, i, Len(pathname)) \in tails}
    IN  IF starts = {} THEN pathname
        ELSE SubSeq(pathname, 1,
                    (CHOOSE i \in starts : \A j \in starts : i <= j) - 1) \o "/"

\* `${url.protocol}//${url.host}${cPath}`
CanonicalUrl(req) == req.protocol \o "//" \o req.host \o CanonicalPath(req.pathname)

LinkValue(uri, rel) == "<" \o uri \o ">; rel=\"" \o rel \o "\""

\* The link injector.
Injected(h, req, e) ==
    LET link0 == HeadersGet(h, "Link")
        h1    == IF ~HasCanonical(link0)
                 THEN HeadersAppend(h, "Link", LinkValue(CanonicalUrl(req), "canonical"))
                 ELSE h
        link  == HeadersGet(h1, "Link")
        h2    == IF e.TERMS_URL # "" /\ ~HasTerms(link)
                 THEN HeadersAppend(h1, "Link", LinkValue(e.TERMS_URL, "terms-of-service"))
                 ELSE h1
    IN  IF e.PRICING_URL # "" /\ ~HasPricing(link)
        THEN HeadersAppend(h2, "Link", LinkValue(e.PRICING_URL, "payment"))
        ELSE h2

\* Whether the receipt signer reads the body to measure it.
BuffersBody(r, h) == r.status = 200 /\ HeadersGet(h, "Content-Length") = ""

\* Measuring by resp.arrayBuffer(): the body of resp itself is read.
BodyUsedReadingResp(used, r, h) == used \/ BuffersBody(r, h)

\* resp.clone().arrayBuffer() reads the copy: resp.body is as unread as before.
BodyUsedAfterMeasure(used, r, h) == used

\* The bytes field with no case for status 304.
ReceiptBytesWithout304(r, h) ==
    IF r.status \in {200, 304}
    THEN LET cl == HeadersGet(h, "Content-Length")
         IN  IF cl # "" THEN parseIntOr0(cl) ELSE Len(r.body)
    ELSE 0

\* The bytes field with the body's length where Content-Length gives no number.
ReceiptBytesMeasuringUnparsed(r, h) ==
    IF r.status = 304 THEN 0
    ELSE IF r.status = 200
         THEN LET cl == HeadersGet(h, "Content-Length")
              IN  IF cl # "" /\ digitRun(trimStart(cl)) > 0 THEN parseIntOr0(cl)
                  ELSE Len(r.body)
         ELSE 0

\* The bytes field of the receipt.
ReceiptBytes(r, h) ==
    IF r.status = 304 THEN 0
    ELSE IF r.status = 200
         THEN LET cl == HeadersGet(h, "Content-Length")
              IN  IF cl # "" THEN parseIntOr0(cl) ELSE Len(r.body)
         ELSE 0

\* The entity tag with its double quotes left in.
ReceiptEtagKeepingQuotes(h) == removeChars(HeadersGet(h, "ETag"), {"\r", "\n"})

\* headers.get('ETag')?.replace(/\r|\n/g, '') || '', then .replace(/"/g, '')
ReceiptEtag(h) == removeChars(removeChars(HeadersGet(h, "ETag"), {"\r", "\n"}), {"\""})

ReceiptPayload(contract, status, bytes, etag, ts) ==
    "contract=" \o contract \o "; status=" \o ToString(status)
        \o "; bytes=" \o ToString(bytes) \o "; etag=\"" \o etag \o "\"; ts=" \o ts

\* HMAC-SHA256 of the payload under the key, in base64: the digest is not
\* computed; it is a term that names the key and the payload it was made from.
hmacB64(payload, key) == "b64(hmac-sha256(" \o key \o "," \o payload \o "))"

\* The receipt signer.
Signed(h, r, req, e, ts) ==
    LET payload == ReceiptPayload(HeadersGet(req.headers, "X-AI-Contract"), r.status,
                                  ReceiptBytes(r, h), ReceiptEtag(h), ts)
    IN  HeadersSet(h, "AI-Usage-Receipt",
                   payload \o "; sig=" \o hmacB64(payload, e.RECEIPT_HMAC_KEY))

\* The signer switched on by the key alone, on every path.
SignAppliesOnAnyPath(llm, e) == e.RECEIPT_HMAC_KEY # ""

SignApplies(llm, e) == llm /\ e.RECEIPT_HMAC_KEY # ""

----------------------------------------------------------------------------
(* The inputs: configurations, requests, origins and clock readings. *)

Env(mode, keys, terms, pricing, hmacKey, sitemap, manifest) ==
    [AUTH_MODE |-> mode, API_KEYS |-> keys, TERMS_URL |-> terms,
     PRICING_URL |-> pricing, RECEIPT_HMAC_KEY |-> hmacKey,
     SITEMAP_PATH |-> sitemap, MANIFEST_PATH |-> manifest]

Req(pathname, pairs) ==
    [protocol |-> "https:", host |-> "h", pathname |-> pathname, search |-> "?q=1",
     headers |-> HeadersOf(pairs)]

Origin(fails, status, pairs, body) ==
    [fails |-> fails, status |-> status,
     statusText |-> (IF status = 200 THEN "OK" ELSE "S" \o ToString(status)),
     headers |-> HeadersOf(pairs), body |-> body]

\* One header or none: a list of at most one <<name, value>> pair.
Opt(name, values) == {<<>>} \cup {<< <<name, v>> >> : v \in values}

RECURSIVE Spaces(_)
Spaces(n) == IF n = 0 THEN "" ELSE " " \o Spaces(n - 1)

SeqsUpTo(S, n) == UNION {[1..k -> S] : k \in 0..n}

TermsUrl == "https://h/terms"
PricingUrl == "https://h/pricing"
Clock == {"2025-10-16T12:34:56.000Z", "2025-10-17T00:00:00.000Z"}
Time1 == "2025-10-16T12:34:56.000Z"

PlainOrigin == Origin(FALSE, 200, << <<"Content-Type", "text/plain">> >>, "hello")
DownOrigin == Origin(TRUE, 0, <<>>, "")

\* The access guard: allow-lists, Authorization and X-API-Key values.
AuthEnvs ==
    {Env(m, k, "", "", "", "", "") :
        m \in {"", "api_key"}, k \in {"", " , ", "k1", "k1, K2 ,"}}

AuthorizationValues ==
    {sch \o Spaces(n) \o c :
        sch \in {"Bearer ", "bearer ", "BEARER ", "Basic ", "Bearer"},
        n \in 0..MaxPad, c \in {"", "k1", "K1", "zz"}}

AuthRequests ==
    {Req(p, a \o x) :
        p \in {"/a/llm", "/a/llm/", "/a"},
        a \in Opt("Authorization", AuthorizationValues),
        x \in Opt("X-API-Key", {"k1", " K2 ", "k2"})}

AuthInputs ==
    {<<e, r, o, Time1>> : e \in AuthEnvs, r \in AuthRequests, o \in {PlainOrigin, DownOrigin}}

\* The link injector: request paths and the origin's Link header lines.
LinkForms ==
    {"<https://h/n>; rel=\"next\"",
     "<https://h/a/>; rel=\"canonical\"",
     "<https://h/a/>;REL=Canonical",
     "<https://h/a/>; rel=\"alternate canonical\"",
     "<https://h/x;rel=canonical>; rel=\"next\"",
     "<https://h/t>; rel=\"terms-of-service\"",
     "<https://h/p>; rel=payment"}

LinkEnvs ==
    {Env("", "", t, p, "", "", "") : t \in {"", TermsUrl}, p \in {"", PricingUrl}}

LinkPaths == {"/a/llm", "/a/llm/", "/llm", "/a;rel=terms/llm"}

LinkOrigins ==
    {Origin(FALSE, 200, [i \in 1..Len(ls) |-> <<"Link", ls[i]>>], "hello") :
        ls \in SeqsUpTo(LinkForms, MaxOriginLinks)}

LinkInputs ==
    {<<e, Req(p, <<>>), o, Time1>> : e \in LinkEnvs, p \in LinkPaths, o \in LinkOrigins}

\* The receipt signer: keys, contracts, statuses, lengths, entity tags, clock.
ReceiptEnvs == {Env("", "", "", "", k, "", "") : k \in {"", "testkey"}}

ReceiptRequests ==
    {Req(p, c) :
        p \in {"/a/llm/", "/llm-sitemap.json", "/a"},
        c \in Opt("X-AI-Contract", {"pilotX", "pilotX; status=304; bytes=0; etag=\"Z"})}

ReceiptOrigins ==
    {Origin(FALSE, st, cl \o et \o rc, b) :
        st \in {200, 304, 404, 500},
        cl \in Opt("Content-Length", {"100", "abc", "12px"}),
        et \in Opt("ETag", {"\"abc\"", "Z; status=404; bytes=0; etag=\"abc"}),
        rc \in Opt("AI-Usage-Receipt", {"forged"}),
        b \in {"", "hello"}}

ReceiptInputs ==
    {<<e, r, o, t>> : e \in ReceiptEnvs, r \in ReceiptRequests, o \in ReceiptOrigins,
                      t \in Clock}

\* The route classifier and the header normalizer: paths, path overrides and the
\* origin's cache headers, with every feature off or every feature on.
FrameEnvs ==
    {Env(on[1], on[2], on[3], on[4], on[5], sm, mf) :
        on \in {<<"", "", "", "", "">>,
                <<"api_key", "k1", TermsUrl, PricingUrl, "testkey">>},
        sm \in {"", "/sm.json"}, mf \in {"", "/m.txt"}}

FramePaths ==
    {"/a/llm", "/llm-sitemap.json", "/llms.txt", "/sm.json", "/m.txt", "/a", "/allm",
     "/a/llm/x"}

FrameOrigins ==
    {Origin(FALSE, 200, cc \o pr \o ex \o ls \o << <<"Vary", "Accept">> >>, "hello") :
        cc \in Opt("cache-control", {"no-store"})
                \cup {<< <<"Cache-Control", "private">>, <<"cache-control", "max-age=9">> >>},
        pr \in Opt("Pragma", {"no-cache"}),
        ex \in Opt("EXPIRES", {"0"}),
        ls \in Opt("X-LiteSpeed-Cache-Control", {"no-cache"})}

FrameInputs ==
    {<<e, Req(p, k), o, Time1>> :
        e \in FrameEnvs, p \in FramePaths, k \in Opt("X-API-Key", {"k1"}),
        o \in FrameOrigins}

Inputs == AuthInputs \cup LinkInputs \cup ReceiptInputs \cup FrameInputs

----------------------------------------------------------------------------
(* The handler, one action per stage. *)

NoResp == [status |-> 0, statusText |-> "", headers |-> <<>>, body |-> ""]

Pending ==
    [kind |-> "pending", status |-> 0, statusText |-> "", body |-> "", headers |-> <<>>]

Exception ==
    [kind |-> "exception", status |-> 0, statusText |-> "", body |-> "", headers |-> <<>>]

Init ==
    /\ \E in \in Inputs :
        /\ env = in[1]
        /\ request = in[2]
        /\ origin = in[3]
        /\ now = in[4]
    /\ pc = "classify"
    /\ isLLMEndpoint = FALSE
    /\ isSitemap = FALSE
    /\ isManifest = FALSE
    /\ resp = NoResp
    /\ headers = <<>>
    /\ originCalls = 0
    /\ bodyUsed = FALSE
    /\ bodyReads = 0
    /\ result = Pending

Classify ==
    /\ pc = "classify"
    /\ isLLMEndpoint' = IsLLMPath(request.pathname)
    /\ isSitemap' = IsSitemapPath(request.pathname, env)
    /\ isManifest' = IsManifestPath(request.pathname, env)
    /\ pc' = "guard"
    /\ UNCHANGED <<env, request, origin, now, resp, headers, originCalls, bodyUsed,
                   bodyReads, result>>

\* The guard answers 401 itself.
GuardReject ==
    /\ pc = "guard"
    /\ GuardApplies(isLLMEndpoint, env)
    /\ ~GuardOk(request, env)
    /\ result' = Unauthorized
    /\ pc' = "done"
    /\ UNCHANGED <<env, request, origin, now, isLLMEndpoint, isSitemap, isManifest,
                   resp, headers, originCalls, bodyUsed, bodyReads>>

\* The guard does not apply, or accepts the credential.
GuardPass ==
    /\ pc = "guard"
    /\ ~GuardApplies(isLLMEndpoint, env) \/ GuardOk(request, env)
    /\ pc' = "forward"
    /\ UNCHANGED <<env, request, origin, now, isLLMEndpoint, isSitemap, isManifest,
                   resp, headers, originCalls, bodyUsed, bodyReads, result>>

\* await fetch(request) resolves; headers = new Headers(resp.headers).
OriginResponds ==
    /\ pc = "forward"
    /\ ~origin.fails
    /\ originCalls' = originCalls + 1
    /\ resp' = [status |-> origin.status, statusText |-> origin.statusText,
                headers |-> origin.headers, body |-> origin.body]
    /\ headers' = origin.headers
    /\ pc' = "normalize"
    /\ UNCHANGED <<env, request, origin, now, isLLMEndpoint, isSitemap, isManifest,
                   bodyUsed, bodyReads, result>>

\* A failed origin call tried once more before giving up.
OriginFailsRetrying ==
    /\ pc = "forward"
    /\ origin.fails
    /\ originCalls' = originCalls + 1
    /\ result' = IF originCalls = 0 THEN result ELSE Exception
    /\ pc' = IF originCalls = 0 THEN "forward" ELSE "done"
    /\ UNCHANGED <<env, request, origin, now, isLLMEndpoint, isSitemap, isManifest,
                   resp, headers, bodyUsed, bodyReads>>

\* await fetch(request) rejects: nothing catches it, the handler's promise rejects.
OriginFails ==
    /\ pc = "forward"
    /\ origin.fails
    /\ originCalls' = originCalls + 1
    /\ result' = Exception
    /\ pc' = "done"
    /\ UNCHANGED <<env, request, origin, now, isLLMEndpoint, isSitemap, isManifest,
                   resp, headers, bodyUsed, bodyReads>>

Normalize ==
    /\ pc = "normalize"
    /\ headers' = IF isLLMEndpoint \/ isSitemap \/ isManifest
                  THEN Normalized(headers) ELSE headers
    /\ pc' = "inject"
    /\ UNCHANGED <<env, request, origin, now, isLLMEndpoint, isSitemap, isManifest,
                   resp, originCalls, bodyUsed, bodyReads, result>>

Inject ==
    /\ pc = "inject"
    /\ headers' = IF isLLMEndpoint THEN Injected(headers, request, env) ELSE headers
    /\ pc' = "sign"
    /\ UNCHANGED <<env, request, origin, now, isLLMEndpoint, isSitemap, isManifest,
                   resp, originCalls, bodyUsed, bodyReads, result>>

\* The receipt signer; resp.clone().arrayBuffer() reads a copy, not resp.body.
Sign ==
    /\ pc = "sign"
    /\ IF SignApplies(isLLMEndpoint, env)
       THEN /\ headers' = Signed(headers, resp, request, env, now)
            /\ bodyReads' = IF BuffersBody(resp, headers) THEN bodyReads + 1
                            ELSE bodyReads
            /\ bodyUsed' = BodyUsedAfterMeasure(bodyUsed, resp, headers)
       ELSE UNCHANGED <<headers, bodyReads, bodyUsed>>
    /\ pc' = "return"
    /\ UNCHANGED <<env, request, origin, now, isLLMEndpoint, isSitemap, isManifest,
                   resp, originCalls, result>>

\* new Response(resp.body, {status, statusText, headers}); a body already read
\* cannot be handed on.
Return ==
    /\ pc = "return"
    /\ result' = IF bodyUsed THEN Exception
                 ELSE [kind |-> "response", status |-> resp.status,
                       statusText |-> resp.statusText, body |-> resp.body,
                       headers |-> headers]
    /\ pc' = "done"
    /\ UNCHANGED <<env, request, origin, now, isLLMEndpoint, isSitemap, isManifest,
                   resp, headers, originCalls, bodyUsed, bodyReads>>

Next ==
    \/ Classify
    \/ GuardReject
    \/ GuardPass
    \/ OriginResponds
    \/ OriginFails
    \/ Normalize
    \/ Inject
    \/ Sign
    \/ Return

Spec == Init /\ [][Next]_vars

----------------------------------------------------------------------------
(* What the properties speak of, stated apart from the handler's own operators. *)

Done == pc = "done"

Responded == Done /\ result.kind = "response" /\ originCalls = 1

\* The path ends in /llm or /llm/.
LlmEndpointPath == \E t \in {"/llm", "/llm/"} : endsWith(request.pathname, t)

ConfiguredSitemapPath ==
    IF env.SITEMAP_PATH = "" THEN "/llm-sitemap.json" ELSE env.SITEMAP_PATH

ConfiguredManifestPath == IF env.MANIFEST_PATH = "" THEN "/llms.txt" ELSE env.MANIFEST_PATH

ClassifiedPath ==
    \/ LlmEndpointPath
    \/ request.pathname = ConfiguredSitemapPath
    \/ request.pathname = ConfiguredManifestPath

\* The non-empty, trimmed entries of the comma-separated API_KEYS.
KeySet ==
    LET parts == split(env.API_KEYS, ",")
    IN  {trim(parts[i]) : i \in 1..Len(parts)} \ {""}

\* The rest of the Authorization value after a case-insensitive "Bearer ".
BearerCredential ==
    LET a == HeadersGet(request.headers, "Authorization")
    IN  IF MatchCI(a, 1, "Bearer ") THEN SubSeq(a, 8, Len(a)) ELSE ""

XApiKey == HeadersGet(request.headers, "X-API-Key")

GuardDecided == pc \notin {"classify", "guard"}

GuardRejected == Done /\ originCalls = 0

GuardAccepted == GuardDecided /\ ~GuardRejected

ApiKeyGuarded == LlmEndpointPath /\ env.AUTH_MODE = "api_key"

\* C1: on an LLM-endpoint path under AUTH_MODE "api_key", when neither the bearer
\* credential nor the X-API-Key value is one of the configured keys, the handler
\* answers 401 with an empty body and WWW-Authenticate: Bearer realm="tct", and
\* the origin is never called.
C1_UnauthorizedIs401 ==
    (Done /\ ApiKeyGuarded /\ BearerCredential \notin KeySet /\ XApiKey \notin KeySet)
        => /\ result.kind = "response"
           /\ result.status = 401
           /\ result.body = ""
           /\ HeaderValues(result.headers, "WWW-Authenticate") = <<"Bearer realm=\"tct\"">>
           /\ originCalls = 0

\* A request that presents a credential differing from a key only in letter case
\* has been answered 401.
C1_Witness ==
    /\ Done
    /\ ApiKeyGuarded
    /\ BearerCredential = "K1"
    /\ KeySet = {"k1"}
    /\ XApiKey = ""
    /\ result.status = 401
    /\ originCalls = 0

\* C2 (as claimed): under AUTH_MODE "api_key" on an LLM-endpoint path the guard
\* accepts if and only if the bearer credential or the X-API-Key value, trimmed,
\* equals some configured key.
C2_AcceptsIffTrimmedCredentialIsKey ==
    (GuardDecided /\ ApiKeyGuarded)
        => (GuardAccepted <=> (trim(BearerCredential) \in KeySet \/ trim(XApiKey) \in KeySet))

\* C2 (amended): the guard accepts if and only if the bearer credential, taken as
\* it stands after the 7-character prefix, or the X-API-Key value the headers
\* give, equals some configured key, letter case included.
C2_AcceptsIffCredentialIsKey ==
    (GuardDecided /\ ApiKeyGuarded)
        => (GuardAccepted <=> (BearerCredential \in KeySet \/ XApiKey \in KeySet))

\* A bearer credential that is a key behind one more space has been rejected.
C2_Witness ==
    /\ GuardRejected
    /\ ApiKeyGuarded
    /\ BearerCredential = " k1"
    /\ "k1" \in KeySet
    /\ XApiKey = ""

\* C3: when the origin call fails, the handler still completes with a response
\* of status 5xx, no exception escapes, and the origin is not called again.
C3_OriginFailureIsServerError ==
    (Done /\ origin.fails /\ originCalls >= 1)
        => /\ result.kind = "response"
           /\ result.status \in 500..599
           /\ originCalls = 1

C5_UnclassifiedPassesThrough ==
    (Done /\ ~ClassifiedPath)
        => /\ originCalls = 1
           /\ ~origin.fails =>
                /\ result.kind = "response"
                /\ result.status = origin.status
                /\ result.headers = origin.headers

\* With every feature configured, a request for the default sitemap path, which
\* an override has replaced, has been passed through with the origin's headers.
C5_Witness ==
    /\ Responded
    /\ env.AUTH_MODE = "api_key"
    /\ env.RECEIPT_HMAC_KEY # ""
    /\ env.TERMS_URL # ""
    /\ env.SITEMAP_PATH = "/sm.json"
    /\ request.pathname = "/llm-sitemap.json"
    /\ HeadersHas(origin.headers, "Pragma")
    /\ result.headers = origin.headers

----------------------------------------------------------------------------
(* The Link header read as RFC 8288 has it: link-values separated by commas, *)
(* each a <URI> followed by parameters separated by semicolons; commas and   *)
(* semicolons inside <...> or inside a quoted string separate nothing.       *)

\* The first index from i on of a character of cs in s, 0 when there is none.
FirstOf(s, i, cs) ==
    IF \E j \in i..Len(s) : Char(s, j) \in cs
    THEN CHOOSE j \in i..Len(s) :
            Char(s, j) \in cs /\ \A k \in i..(j - 1) : Char(s, k) \notin cs
    ELSE 0

\* The indexes from i on where separator sep stands outside <...> and "...";
\* index i itself is outside both.
RECURSIVE TopLevel(_, _, _)
TopLevel(s, i, sep) ==
    LET j == FirstOf(s, i, {sep, "<", "\""})
    IN  IF j = 0 THEN <<>>
        ELSE IF Char(s, j) = sep THEN <<j>> \o TopLevel(s, j + 1, sep)
        ELSE LET close == FirstOf(s, j + 1, {IF Char(s, j) = "<" THEN ">" ELSE "\""})
             IN  IF close = 0 THEN <<>> ELSE TopLevel(s, close + 1, sep)

\* The trimmed pieces of s between its top-level separators.
Pieces(s, sep) ==
    LET cuts == <<0>> \o TopLevel(s, 1, sep) \o <<Len(s) + 1>>
    IN  [k \in 1..(Len(cuts) - 1) |-> trim(SubSeq(s, cuts[k] + 1, cuts[k + 1] - 1))]

\* The link-values of a Link header value.
LinkEntries(link) == SelectSeq(Pieces(link, ","), LAMBDA x : x # "")

EntryUri(entry) ==
    LET close == IndexOf(entry, ">")
    IN  IF startsWith(entry, "<") /\ close > 0 THEN SubSeq(entry, 2, close - 1) ELSE ""

\* The parameters of a link-value, as written.
EntryParams(entry) == Tail(Pieces(entry, ";"))

ParamName(param) ==
    LET eq == IndexOf(param, "=")
    IN  toLowerCase(trim(IF eq = 0 THEN param ELSE SubSeq(param, 1, eq - 1)))

ParamValue(param) ==
    LET eq == IndexOf(param, "=")
    IN  IF eq = 0 THEN "" ELSE removeChars(trim(SubSeq(param, eq + 1, Len(param))), {"\""})

\* The relation types of a link-value: the words of its first rel parameter.
EntryRels(entry) ==
    LET rels == SelectSeq(EntryParams(entry), LAMBDA x : ParamName(x) = "rel")
    IN  IF rels = <<>> THEN {}
        ELSE LET words == split(toLowerCase(ParamValue(rels[1])), " ")
             IN  {words[i] : i \in 1..Len(words)} \ {""}

\* The link-values of relation type rel, in order.
EntriesOfRel(link, rel) == SelectSeq(LinkEntries(link), LAMBDA x : rel \in EntryRels(x))

\* Whether a link-value has a parameter written rel=canonical or
\* rel="canonical", in any letter case.
WritesRelCanonical(entry) ==
    \E i \in 1..Len(EntryParams(entry)) :
        toLowerCase(EntryParams(entry)[i]) \in {"rel=canonical", "rel=\"canonical\""}

OriginLink == HeadersGet(origin.headers, "Link")

FinalLink == HeadersGet(result.headers, "Link")

\* The path with its trailing /llm or /llm/ replaced by /.
PathWithoutLlm ==
    LET p == request.pathname
    IN  IF endsWith(p, "/llm/") THEN SubSeq(p, 1, Len(p) - 5) \o "/"
        ELSE SubSeq(p, 1, Len(p) - 4) \o "/"

ExpectedCanonical ==
    "<" \o request.protocol \o "//" \o request.host \o PathWithoutLlm
        \o ">; rel=\"canonical\""

ExpectedTerms == "<" \o env.TERMS_URL \o ">; rel=\"terms-of-service\""

ExpectedPayment == "<" \o env.PRICING_URL \o ">; rel=\"payment\""

LlmResponded == Responded /\ LlmEndpointPath

\* C6: for an LLM-endpoint request whose origin response has no canonical Link
\* relation, the returned Link header has exactly one canonical entry, and its
\* URI is scheme//host/path with the trailing /llm or /llm/ replaced by /.
C6_CanonicalInjected ==
    (LlmResponded /\ EntriesOfRel(OriginLink, "canonical") = <<>>)
        => EntriesOfRel(FinalLink, "canonical") = <<ExpectedCanonical>>

\* C7: after link injection on an LLM-endpoint response the final Link header
\* has at most one entry of each of canonical, terms-of-service and payment.
C7_AtMostOnePerRelation ==
    LlmResponded
        => \A rel \in {"canonical", "terms-of-service", "payment"} :
                Len(EntriesOfRel(FinalLink, rel)) <= 1

\* C8: if the origin's Link header already has an entry written rel="canonical"
\* (quotes optional, any letter case), no canonical entry is added and the
\* origin's Link entries come first in the returned header, verbatim and in order.
C8_CanonicalNotAddedTwice ==
    (LlmResponded /\ \E i \in 1..Len(LinkEntries(OriginLink)) :
                        WritesRelCanonical(LinkEntries(OriginLink)[i]))
        => /\ Len(EntriesOfRel(FinalLink, "canonical"))
                = Len(EntriesOfRel(OriginLink, "canonical"))
           /\ ExpectedCanonical \notin
                {HeaderValues(result.headers, "Link")[i] :
                    i \in (Len(HeaderValues(origin.headers, "Link")) + 1)
                            ..Len(HeaderValues(result.headers, "Link"))}
           /\ SubSeq(HeaderValues(result.headers, "Link"), 1,
                     Len(HeaderValues(origin.headers, "Link")))
                = HeaderValues(origin.headers, "Link")

\* An origin entry written ;REL=Canonical has been kept as the only canonical
\* entry, with the terms link added behind it.
C8_Witness ==
    /\ LlmResponded
    /\ HeaderValues(origin.headers, "Link") = <<"<https://h/a/>;REL=Canonical">>
    /\ env.TERMS_URL # ""
    /\ env.PRICING_URL = ""
    /\ HeaderValues(result.headers, "Link") = <<"<https://h/a/>;REL=Canonical", ExpectedTerms>>

\* C9: for every LLM-endpoint request path, with TERMS_URL and PRICING_URL both
\* configured and an origin response with no canonical, terms or payment/pricing
\* relation, the final Link header ends with exactly the three entries
\* canonical, terms-of-service, payment, in that order, after the origin's own.
C9_ThreeLinksInOrder ==
    (/\ LlmResponded
     /\ env.TERMS_URL # ""
     /\ env.PRICING_URL # ""
     /\ \A rel \in {"canonical", "terms", "terms-of-service", "payment", "pricing"} :
            EntriesOfRel(OriginLink, rel) = <<>>)
        => LinkEntries(FinalLink)
            = LinkEntries(OriginLink) \o <<ExpectedCanonical, ExpectedTerms, ExpectedPayment>>

----------------------------------------------------------------------------
(* The usage receipt. *)

ReceiptSigned == LlmResponded /\ env.RECEIPT_HMAC_KEY # ""

\* The payload the receipt is to carry for a given bytes value: contract,
\* status, bytes, etag, ts, in that order, separated by "; ".
ExpectedPayload(bytes) ==
    "contract=" \o HeadersGet(request.headers, "X-AI-Contract")
        \o "; status=" \o ToString(origin.status)
        \o "; bytes=" \o ToString(bytes)
        \o "; etag=\"" \o removeChars(HeadersGet(origin.headers, "ETag"), {"\r", "\n", "\""})
        \o "\"; ts=" \o now

\* The byte counts a receipt of the model can carry.
ByteCounts == 0..100

\* C10: the AI-Usage-Receipt of a signed LLM-endpoint response is
\* "<payload>; sig=<s>", the payload being contract, status, bytes, etag (CR, LF
\* and double quotes removed) and ts in that order, and s the base64 HMAC-SHA256
\* of exactly that payload under the configured key.
C10_ReceiptIsSignedPayload ==
    ReceiptSigned
        => \E bytes \in ByteCounts :
            HeaderValues(result.headers, "AI-Usage-Receipt")
                = <<ExpectedPayload(bytes) \o "; sig="
                        \o hmacB64(ExpectedPayload(bytes), env.RECEIPT_HMAC_KEY)>>

\* The receipt of a 200 response with Content-Length 100 and ETag "abc" to a
\* request with X-AI-Contract pilotX, signed with testkey, which replaces a
\* receipt the origin sent.
C10_Witness ==
    /\ ReceiptSigned
    /\ env.RECEIPT_HMAC_KEY = "testkey"
    /\ HeadersGet(origin.headers, "AI-Usage-Receipt") = "forged"
    /\ HeadersGet(result.headers, "AI-Usage-Receipt")
        = "contract=pilotX; status=200; bytes=100; etag=\"abc\"; ts=2025-10-16T12:34:56.000Z; sig="
            \o hmacB64("contract=pilotX; status=200; bytes=100; etag=\"abc\"; ts=2025-10-16T12:34:56.000Z",
                       "testkey")

----------------------------------------------------------------------------
(* The bytes field. *)

OriginContentLength == HeadersGet(origin.headers, "Content-Length")

\* The digits a Content-Length value starts with, after white space and a sign.
LeadingDigits(s) ==
    LET t == trimStart(s)
        u == IF t # "" /\ Char(t, 1) \in {"+", "-"} THEN SubSeq(t, 2, Len(t)) ELSE t
    IN  SubSeq(u, 1, digitRun(u))

\* A value parses as an integer when it starts with one.
ParsesAsInteger(s) == LeadingDigits(s) # ""

IntegerOf(s) ==
    IF startsWith(trimStart(s), "-") THEN 0 - digitsValue(LeadingDigits(s))
    ELSE digitsValue(LeadingDigits(s))

TheReceipt == HeaderValues(result.headers, "AI-Usage-Receipt")

ReceiptWithBytes(bytes) ==
    <<ExpectedPayload(bytes) \o "; sig="
        \o hmacB64(ExpectedPayload(bytes), env.RECEIPT_HMAC_KEY)>>

UnparsedLength ==
    /\ ReceiptSigned
    /\ origin.status = 200
    /\ HeadersHas(origin.headers, "Content-Length")
    /\ ~ParsesAsInteger(OriginContentLength)

\* C12 (as claimed): for a status-200 response whose Content-Length does not
\* parse as an integer, the signer buffers the body and reports its measured
\* length as bytes, and the request does not fail.
C12_UnparsedLengthIsMeasured ==
    UnparsedLength
        => /\ TheReceipt = ReceiptWithBytes(Len(origin.body))
           /\ bodyReads = 1

\* C12 (amended): for such a response the signer reads no body and reports
\* bytes=0, and the request does not fail.
C12_UnparsedLengthIsZero ==
    (Done /\ LlmEndpointPath /\ env.RECEIPT_HMAC_KEY # "" /\ ~origin.fails
        /\ origin.status = 200 /\ HeadersHas(origin.headers, "Content-Length")
        /\ ~ParsesAsInteger(OriginContentLength))
        => /\ Responded
           /\ TheReceipt = ReceiptWithBytes(0)
           /\ bodyReads = 0

\* A 200 response with Content-Length abc and a five-byte body has been signed
\* with bytes=0.
C12_Witness ==
    /\ UnparsedLength
    /\ OriginContentLength = "abc"
    /\ origin.body = "hello"
    /\ TheReceipt = ReceiptWithBytes(0)
    /\ bodyReads = 0

----------------------------------------------------------------------------
(* When the signer runs. *)

OriginReceipt == HeaderValues(origin.headers, "AI-Usage-Receipt")

\* The header holds one value, "<payload>; sig=<s>", with a payload made for
\* this exchange and s its signature under the configured key.
WorkerReceipt ==
    /\ Len(TheReceipt) = 1
    /\ LET r == TheReceipt[1]
           n == (Len(r) - Len("; sig=" \o hmacB64("", env.RECEIPT_HMAC_KEY))) \div 2
       IN  /\ n > 0
           /\ r = SubSeq(r, 1, n) \o "; sig="
                    \o hmacB64(SubSeq(r, 1, n), env.RECEIPT_HMAC_KEY)
           /\ startsWith(r, "contract=" \o HeadersGet(request.headers, "X-AI-Contract")
                                \o "; status=" \o ToString(origin.status) \o "; bytes=")
           /\ endsWith(SubSeq(r, 1, n), "; ts=" \o now)

SignerEnabled == LlmEndpointPath /\ env.RECEIPT_HMAC_KEY # ""

\* C13: receipts are signed on 200/304 responses only: a returned response
\* whose AI-Usage-Receipt header was made by the worker has origin status 200
\* or 304; a response of any other status carries no receipt of the worker.
C13_ReceiptsOnlyOn200Or304 ==
    (Responded /\ SignerEnabled /\ WorkerReceipt) => origin.status \in {200, 304}

\* C14: the receipt is computed and set only on an LLM-endpoint path with a
\* non-empty RECEIPT_HMAC_KEY; otherwise nothing is signed, no body is read,
\* the request does not fail, and the AI-Usage-Receipt header of the returned
\* response is exactly what the origin sent.
C14_SignerOnlyWhenEnabled ==
    (Done /\ originCalls = 1 /\ ~origin.fails)
        => /\ Responded
           /\ IF SignerEnabled THEN WorkerReceipt
              ELSE TheReceipt = OriginReceipt /\ bodyReads = 0

\* A sitemap response returned under a configured key keeps the origin's own
\* AI-Usage-Receipt value, and so does an LLM response under an empty key.
C14_Witness ==
    /\ Responded
    /\ OriginReceipt = <<"forged">>
    /\ TheReceipt = <<"forged">>
    /\ \/ request.pathname = ConfiguredSitemapPath /\ env.RECEIPT_HMAC_KEY = "testkey"
       \/ LlmEndpointPath /\ env.RECEIPT_HMAC_KEY = ""

----------------------------------------------------------------------------
(* The pipeline. *)

Stages == <<"classify", "guard", "forward", "normalize", "inject", "sign", "return", "done">>

Rank(stage) == CHOOSE i \in 1..Len(Stages) : Stages[i] = stage

CredentialAccepted == BearerCredential \in KeySet \/ XApiKey \in KeySet

\* Every step moves to a later stage; only the forward stage calls the origin,
\* and it calls it once; the outcome is written once, by the step that ends
\* the invocation.
StageAdvances ==
    /\ Rank(pc') > Rank(pc)
    /\ originCalls' = IF pc = "forward" THEN originCalls + 1 ELSE originCalls
    /\ (pc' = "done") = (result' # Pending)
    /\ result = Pending

\* The origin is called at most once; before the last step there is no outcome;
\* a finished invocation has called the origin once if the guard let it pass
\* and not at all otherwise, and has returned one response if the origin
\* answered.
PipelineState ==
    /\ originCalls \in {0, 1}
    /\ pc \in {Stages[i] : i \in 1..Len(Stages)}
    /\ ~Done => result = Pending
    /\ Done => /\ originCalls = IF ApiKeyGuarded /\ ~CredentialAccepted THEN 0 ELSE 1
               /\ result # Pending
               /\ (originCalls = 1 /\ ~origin.fails) => result.kind = "response"

----------------------------------------------------------------------------
(* The response body. *)

OriginAnswered == Done /\ originCalls = 1 /\ ~origin.fails

\* C16: the body is consumed at most once and the origin is not fetched again:
\* the returned response carries the origin's status, status text and complete,
\* still unread body, also when the signer has buffered the body to measure it.
C16_BodyIntact ==
    OriginAnswered
        => /\ result.kind = "response"
           /\ result.status = origin.status
           /\ result.statusText = origin.statusText
           /\ result.body = origin.body
           /\ ~bodyUsed
           /\ bodyReads <= 1
           /\ originCalls = 1

\* The signer has measured the five-byte body of a 200 response without
\* Content-Length, and the response returned has that body.
C16_Witness ==
    /\ ReceiptSigned
    /\ origin.status = 200
    /\ ~HeadersHas(origin.headers, "Content-Length")
    /\ origin.body = "hello"
    /\ bodyReads = 1
    /\ TheReceipt = ReceiptWithBytes(5)
    /\ result.body = "hello"
    /\ result.statusText = "OK"

----------------------------------------------------------------------------
(* The guard without keys. *)

\* API_KEYS is empty or holds only commas and white space.
NoKeyConfigured ==
    \A i \in 1..Len(env.API_KEYS) : Char(env.API_KEYS, i) \in WhiteSpace \cup {","}

Is401 == result.kind = "response" /\ result.status = 401 /\ originCalls = 0

\* C17: the guard fails closed: under AUTH_MODE "api_key" with API_KEYS unset,
\* empty or only commas and white space, every LLM-endpoint request is answered
\* 401 and the origin is not called; and an empty credential is never accepted,
\* whatever the list of keys.
C17_GuardFailsClosed ==
    (Done /\ ApiKeyGuarded)
        => /\ NoKeyConfigured => Is401
           /\ (BearerCredential = "" /\ XApiKey = "") => Is401
           /\ ~Is401 => \/ BearerCredential # "" /\ BearerCredential \in KeySet
                        \/ XApiKey # "" /\ XApiKey \in KeySet

\* A request presenting the bearer credential k1 has been answered 401 under
\* API_KEYS " , ".
C17_Witness ==
    /\ Done
    /\ ApiKeyGuarded
    /\ env.API_KEYS = " , "
    /\ BearerCredential = "k1"
    /\ Is401

----------------------------------------------------------------------------
(* The payload as a record. *)

\* The five fields an exchange puts in its receipt.
FieldsOf(req, org, ts) ==
    [contract |-> HeadersGet(req.headers, "X-AI-Contract"),
     status   |-> org.status,
     bytes    |-> IF org.status # 200 THEN 0
                  ELSE IF HeadersHas(org.headers, "Content-Length")
                       THEN (IF ParsesAsInteger(HeadersGet(org.headers, "Content-Length"))
                             THEN IntegerOf(HeadersGet(org.headers, "Content-Length"))
                             ELSE 0)
                       ELSE Len(org.body),
     etag     |-> removeChars(HeadersGet(org.headers, "ETag"), {"\r", "\n", "\""}),
     ts       |-> ts]

\* Contract and ETag values written to look like the fields that follow them.
ForgedContract == "pilotX; status=304; bytes=0; etag=\"Z"

ForgedETag == "Z; status=404; bytes=0; etag=\"abc"

\* The exchanges a receipt is compared with.
OtherExchanges ==
    {<<Req("/a/llm/", c), Origin(FALSE, st, et, "hello"), Time1>> :
        c \in Opt("X-AI-Contract", {"pilotX", ForgedContract}),
        st \in {200, 304, 404},
        et \in Opt("ETag", {"abc", ForgedETag})}

\* The receipt the signer makes for an exchange under the configured key.
ReceiptOf(x) ==
    HeaderValues(Signed(x[2].headers, x[2], x[1], env, x[3]), "AI-Usage-Receipt")

\* C18: the signed payload is unambiguous: two exchanges that differ in any of
\* contract, status, bytes, etag or ts never get the same payload, so never the
\* same receipt under one key; an X-AI-Contract or ETag value containing
\* "; status=" or "; bytes=" does not make one exchange's receipt that of
\* another.
C18_PayloadUnambiguous ==
    ReceiptSigned
        => LET fields  == FieldsOf(request, origin, now)
               receipt == TheReceipt
           IN  \A x \in OtherExchanges :
                   FieldsOf(x[1], x[2], x[3]) # fields => ReceiptOf(x) # receipt

\* A 304 response whose ETag is written to look like the fields of a 404 has
\* been signed for contract pilotX; the exchange with the matching forged contract
\* and a 404 is among those it is compared with.
C18_Witness ==
    /\ ReceiptSigned
    /\ HeadersGet(request.headers, "X-AI-Contract") = "pilotX"
    /\ origin.status = 304
    /\ HeadersGet(origin.headers, "ETag") = ForgedETag
    /\ TheReceipt = ReceiptWithBytes(0)
    /\ \E x \in OtherExchanges :
        /\ HeadersGet(x[1].headers, "X-AI-Contract") = ForgedContract
        /\ x[2].status = 404
        /\ HeadersGet(x[2].headers, "ETag") = "abc"
        /\ x[3] = now
        /\ ReceiptOf(x) # TheReceipt

====
